---- MODULE Spec2Model ----
(***************************************************************************)
(* Model of tf2onnx/rewriter/unit_rnn_rewriter_base.py: UnitRnnContext and *)
(* UnitRnnRewriterBase.  One rewriter over one target graph g, several     *)
(* candidate loop regions, one UnitRnnContext per region.  need_rewrite    *)
(* and rewrite are the two operations; each is one atomic action.          *)
(*                                                                         *)
(* What the external collaborators (loop parser, graph matcher, variant    *)
(* subclass hooks) report about a region is an input of need_rewrite/      *)
(* rewrite: it is drawn when the code first reads it and is recorded in    *)
(* the context's `region` field.                                           *)
(*                                                                         *)
(* _find_state_variable_with_select, the helper the variants' finders      *)
(* call, is a function of the loop body it looks at: fsv holds one call of *)
(* it, its arguments and what it returned (SpecFind).                      *)
(***************************************************************************)
EXTENDS Integers, Sequences, FiniteSets, TLC

VARIABLES g, rw, ctx, fsv

vars == <<g, rw, ctx, fsv>>

\* ------------------------------------------------------------------ bounds
MaxMatches == 2
MaxScanInputs == 2
MaxT == 2
MaxBatch == 2
HiddenSize == 8
MaxConsumers == 2
MaxVariables == 2

\* ------------------------------------------------- onnx TensorProto types
FLOAT == 1
INT32 == 6
INT64 == 7
FloatMantissaBits == 24

\* The candidate loop regions, one UnitRnnContext each: two, so that a call on
\* one context can come between need_rewrite and rewrite of the other.
Contexts == {1, 2}

\* ------------------------------------------------------------- identifiers
\* A tensor id is <<kind, n>>; NoneId stands for Python's None.
NoneId == <<"None", 0>>
ScanInputId(c, k) == <<"scan_in", 10 * c + k>>
ExitId(c) == <<"exit", c>>
OtherId(c) == <<"other", c>>
SeqLenId(c) == <<"seq_len", c>>
Output0(name) == <<"out", name>>

Roles == {"X", "W", "R", "B", "sequence_lens", "initial_h", "initial_c", "P"}

\* state_variable_handlers as a variant's constructor sets them: an ordered
\* list of handlers, a handler being an ordered dict var_name -> (finder,
\* connector), here the sequence of its keys.  The finder and the connector
\* of key v of handler number i are identified by <<i, v>>.
HandlerLists ==
    { << <<"h">> >>,
      << <<"h", "c">>, <<"h">> >>,
      << <<"c", "h">>, <<"h">> >>,
      << <<"c">>, <<"h">> >> }

Range(s) == {s[i] : i \in DOMAIN s}

\* ------------------------------------------------------------- ordered dict
\* A Python dict as the sequence of its items in insertion order.
DictKeys(d) == {d[i].key : i \in DOMAIN d}
DictSet(d, k, v) ==
    IF k \in DictKeys(d)
    THEN [i \in DOMAIN d |-> IF d[i].key = k THEN [key |-> k, val |-> v] ELSE d[i]]
    ELSE Append(d, [key |-> k, val |-> v])
DictValues(d) == [i \in DOMAIN d |-> d[i].val]

\* ------------------------------------------------------------------- graph
NoShape == <<>>
NoDtype == 0

Node(name, op_type, inputs, attr, shape, dtype) ==
    [name |-> name, type |-> op_type, input |-> inputs, attr |-> attr,
     shape |-> shape, dtype |-> dtype]

\* Graph.make_node: a fresh node is appended to the graph; its first output
\* is Output0(name).
make_node(G, op_type, inputs, attr, shape, dtype) ==
    [nodes |-> Append(G.nodes, Node(G.next, op_type, inputs, attr, shape, dtype)),
     next |-> G.next + 1]
LastName(G) == G.nodes[Len(G.nodes)].name

get_node_by_output(G, id) ==
    LET S == {i \in DOMAIN G.nodes : Output0(G.nodes[i].name) = id}
    IN IF S = {} THEN 0 ELSE CHOOSE i \in S : TRUE
get_shape(G, id) ==
    IF get_node_by_output(G, id) = 0 THEN NoShape
    ELSE G.nodes[get_node_by_output(G, id)].shape
get_dtype(G, id) ==
    IF get_node_by_output(G, id) = 0 THEN NoDtype
    ELSE G.nodes[get_node_by_output(G, id)].dtype

\* Graph.replace_all_inputs(nodes, old, new) over all nodes of the graph.
replace_all_inputs(G, old, new) ==
    [G EXCEPT !.nodes =
        [i \in DOMAIN G.nodes |->
            [G.nodes[i] EXCEPT !.input =
                [j \in DOMAIN G.nodes[i].input |->
                    IF G.nodes[i].input[j] = old THEN new ELSE G.nodes[i].input[j]]]]]

\* GraphBuilder.make_slice: one Slice node, returns its output id.
make_slice(G, data, axes, starts, ends) ==
    make_node(G, "Slice", <<data>>, <<axes, starts, ends>>, NoShape, NoDtype)

\* ----------------------------------------------------------------- context
\* UnitRnnContext.__init__ (with the loop_properties / rnn_node of Context).
NoRegion ==
    [loop_ok |-> FALSE, n_scan |-> 0, n_match |-> 0, weights_ok |-> FALSE,
     found |-> {}, producer |-> "none", attrs_ok |-> FALSE, valid_ok |-> FALSE]

UnitRnnContext ==
    [cell_match |-> 0,
     weights |-> {},
     seq_len_node |-> NoneId,
     state_variables |-> <<>>,
     onnx_input_ids |-> [r \in Roles |-> NoneId],
     rnn_node |-> 0,
     scan_inputs_initial_values |-> <<>>,
     scan_outputs_exits |-> <<>>,
     \* bookkeeping of the calls made on this context
     region |-> NoRegion,
     result |-> "none",
     ran |-> <<>>,
     called |-> {},
     selected |-> 0,
     picked |-> <<0, "">>,
     rewritten |-> FALSE,
     connectors |-> <<>>,
     added |-> <<>>,
     steps |-> <<>>,
     rewrite_result |-> "none"]

\* The consumers of each region's scan-output exit that exist in the graph
\* before any rewrite.
InitGraph ==
    [nodes |-> [c \in Contexts |->
                   Node(c, "Consumer", <<ExitId(c), OtherId(c)>>, <<>>, NoShape, NoDtype)],
     next |-> Cardinality(Contexts) + 1]

\* ------------------------------------------------------------ need_rewrite
\* Results of a call: "True", "False", or "raise" (an exception left it).

\* matcher.match_ops(body_graph_ops) as a list of n matches, named 1..n.
match_results(n_match) == [k \in 1..n_match |-> k]

\* Mutant of _match_cell: an ambiguous match is settled by taking the first.
_match_cell_first(results) ==
    IF Len(results) = 0 THEN 0 ELSE results[1]

\* _match_cell: the single match, or None (0).
_match_cell(results) ==
    IF Len(results) # 1 THEN 0 ELSE results[1]

\* find_cell of a variant: one _match_cell over the variant's unit type.
find_cell(inp) == _match_cell(match_results(inp.n_match))

\* get_weight_and_bias of a variant: the weights by role, or nothing.
get_weight_and_bias(inp) == IF inp.weights_ok THEN {"W", "R", "B"} ELSE {}

\* parse_attributes / is_valid: True in the base class, a variant may refuse.
parse_attributes(inp) == inp.attrs_ok
is_valid(inp) == inp.valid_ok

\* The finders of a handler list.
FinderIds(handlers) ==
    UNION {{<<i, v>> : v \in Range(handlers[i])} : i \in DOMAIN handlers}

\* The state variable a finder returns.
StateVariable(finder) == [finder |-> finder]

\* The inner loop of get_state_variables over handler.items() from item k on.
RECURSIVE FindersFrom(_, _, _, _, _, _)
FindersFrom(i, handler, k, state_variables, called, found) ==
    IF k > Len(handler)
    THEN [can_handle |-> TRUE, state_variables |-> state_variables, called |-> called]
    ELSE LET finder == <<i, handler[k]>>
         IN IF finder \in found
            THEN FindersFrom(i, handler, k + 1,
                             DictSet(state_variables, handler[k], StateVariable(finder)),
                             called \cup {finder}, found)
            ELSE [can_handle |-> FALSE, state_variables |-> state_variables,
                  called |-> called \cup {finder}]

\* The outer loop of get_state_variables from handler number i on.
RECURSIVE HandlersFrom(_, _, _, _, _, _)
HandlersFrom(handlers, i, state_variables, called, found, old_handler) ==
    IF i > Len(handlers)
    THEN [ret |-> FALSE, state_variables |-> state_variables,
          handler |-> old_handler, called |-> called]
    ELSE LET r == FindersFrom(i, handlers[i], 1, state_variables, called, found)
         IN IF r.can_handle
            THEN [ret |-> TRUE, state_variables |-> r.state_variables,
                  handler |-> i, called |-> r.called]
            ELSE HandlersFrom(handlers, i + 1, r.state_variables, r.called,
                              found, old_handler)

\* Mutant of get_state_variables: every handler is tried and the last one
\* that resolves wins.
get_state_variables_last(context, rewriter, inp) ==
    LET hs == rewriter.state_variable_handlers
        R == {i \in DOMAIN hs : \A v \in Range(hs[i]) : <<i, v>> \in inp.found}
        i == CHOOSE x \in R : \A y \in R : y <= x
    IN IF R = {}
       THEN [ret |-> FALSE, state_variables |-> context.state_variables,
             handler |-> rewriter.state_variable_handler, called |-> FinderIds(hs)]
       ELSE [ret |-> TRUE,
             state_variables |->
                 [k \in DOMAIN hs[i] |->
                     [key |-> hs[i][k], val |-> StateVariable(<<i, hs[i][k]>>)]],
             handler |-> i, called |-> FinderIds(hs)]

\* Mutant of get_state_variables: the fall-through return says True.
get_state_variables_true(context, rewriter, inp) ==
    [HandlersFrom(rewriter.state_variable_handlers, 1, context.state_variables,
                  {}, inp.found, rewriter.state_variable_handler)
        EXCEPT !.ret = TRUE]

get_state_variables(context, rewriter, inp) ==
    HandlersFrom(rewriter.state_variable_handlers, 1, context.state_variables,
                 {}, inp.found, rewriter.state_variable_handler)

\* find_sequence_length_node: inp.producer is the kind of
\* g.get_node_by_output(state_variable.next_iteration_input.id) for the first
\* value of context.state_variables.
is_tf_select_op(kind) == kind \in {"select_match", "select_nomatch"}

\* Mutant of find_sequence_length_node: with no select op the resolver
\* starts the synthesis itself and adds the Shape node to the graph.
find_sequence_length_node_eager(G, context, c, inp) ==
    IF context.state_variables = <<>>
    THEN [raised |-> TRUE, node |-> NoneId, picked |-> <<0, "">>, g |-> G]
    ELSE LET state_variable == DictValues(context.state_variables)[1]
         IN IF ~is_tf_select_op(inp.producer)
            THEN [raised |-> FALSE, node |-> NoneId, picked |-> state_variable.finder,
                  g |-> make_node(G, "Shape", context.scan_inputs_initial_values,
                                  <<>>, NoShape, NoDtype)]
            ELSE IF inp.producer = "select_nomatch"
                 THEN [raised |-> TRUE, node |-> NoneId,
                       picked |-> state_variable.finder, g |-> G]
                 ELSE [raised |-> FALSE, node |-> SeqLenId(c),
                       picked |-> state_variable.finder, g |-> G]

\* Mutant of find_sequence_length_node: an unmatched select op is taken for
\* "no sequence length" instead of raising.
find_sequence_length_node_soft(G, context, c, inp) ==
    IF context.state_variables = <<>>
    THEN [raised |-> TRUE, node |-> NoneId, picked |-> <<0, "">>, g |-> G]
    ELSE LET state_variable == DictValues(context.state_variables)[1]
         IN IF inp.producer = "select_match"
            THEN [raised |-> FALSE, node |-> SeqLenId(c),
                  picked |-> state_variable.finder, g |-> G]
            ELSE [raised |-> FALSE, node |-> NoneId,
                  picked |-> state_variable.finder, g |-> G]

find_sequence_length_node(G, context, c, inp) ==
    IF context.state_variables = <<>>
    THEN [raised |-> TRUE, node |-> NoneId, picked |-> <<0, "">>, g |-> G]
    ELSE LET state_variable == DictValues(context.state_variables)[1]
         IN IF ~is_tf_select_op(inp.producer)
            THEN [raised |-> FALSE, node |-> NoneId,
                  picked |-> state_variable.finder, g |-> G]
            ELSE IF inp.producer = "select_nomatch"
                 THEN [raised |-> TRUE, node |-> NoneId,
                       picked |-> state_variable.finder, g |-> G]
                 ELSE [raised |-> FALSE, node |-> SeqLenId(c),
                       picked |-> state_variable.finder, g |-> G]

\* Mutant of require_exact_one_input: "at least one" instead of "exactly one".
require_at_least_one_input(inputs) == Len(inputs) >= 1

\* "require exact one input": the test on scan_inputs_initial_values.
require_exact_one_input(inputs) == Len(inputs) = 1

Out(ret, G, context, handler, ran, called, picked) ==
    [ret |-> ret, g |-> G, context |-> context, handler |-> handler, ran |-> ran,
     called |-> called, picked |-> picked]

NoFinder == <<0, "">>

\* A call in progress: st is what it has done so far.
Start(G, context, rewriter) ==
    Out("none", G, context, rewriter.state_variable_handler, <<>>, {}, NoFinder)
Stage(st, stage) == [st EXCEPT !.ran = Append(@, stage)]
Return(st, ret) == [st EXCEPT !.ret = ret]

\* parse_unit_rnn, lines 127-131: parse_attributes.
parse_unit_rnn_attributes(st, inp) ==
    Return(st, IF ~parse_attributes(inp) THEN "False" ELSE "True")

\* parse_unit_rnn, lines 119-125: require exact one input, bind it to "X".
parse_unit_rnn_inputs(st, inp) ==
    IF ~require_exact_one_input(st.context.scan_inputs_initial_values)
    THEN Return(st, "False")
    ELSE parse_unit_rnn_attributes(
             Stage([st EXCEPT !.context.onnx_input_ids["X"] =
                                  st.context.scan_inputs_initial_values[1]],
                   "parse_attributes"),
             inp)

\* Mutant of parse_unit_rnn: the sequence-length node that was found is bound
\* to the role "sequence_lens" at once.
parse_unit_rnn_seq_len_node_bind(st, seq_len_node, inp) ==
    IF seq_len_node.raised
    THEN Return([st EXCEPT !.g = seq_len_node.g, !.picked = seq_len_node.picked],
                "raise")
    ELSE parse_unit_rnn_inputs(
             Stage([st EXCEPT !.g = seq_len_node.g,
                              !.picked = seq_len_node.picked,
                              !.context.seq_len_node =
                                  IF seq_len_node.node # NoneId
                                  THEN seq_len_node.node ELSE @,
                              !.context.onnx_input_ids["sequence_lens"] =
                                  seq_len_node.node],
                   "scan_inputs"),
             inp)

\* parse_unit_rnn, lines 114-117: seq_len_node is what
\* find_sequence_length_node returned, unless it raised.
parse_unit_rnn_seq_len_node(st, seq_len_node, inp) ==
    IF seq_len_node.raised
    THEN Return([st EXCEPT !.g = seq_len_node.g, !.picked = seq_len_node.picked],
                "raise")
    ELSE parse_unit_rnn_inputs(
             Stage([st EXCEPT !.g = seq_len_node.g,
                              !.picked = seq_len_node.picked,
                              !.context.seq_len_node =
                                  IF seq_len_node.node # NoneId
                                  THEN seq_len_node.node ELSE @],
                   "scan_inputs"),
             inp)

parse_unit_rnn_seq_len(st, c, inp) ==
    parse_unit_rnn_seq_len_node(
        st, find_sequence_length_node(st.g, st.context, c, inp), inp)

\* parse_unit_rnn, lines 110-112: sv is what get_state_variables did.
parse_unit_rnn_state_variables(st, sv, c, inp) ==
    IF ~sv.ret
    THEN Return([st EXCEPT !.context.state_variables = sv.state_variables,
                           !.handler = sv.handler, !.called = sv.called],
                "False")
    ELSE parse_unit_rnn_seq_len(
             Stage([st EXCEPT !.context.state_variables = sv.state_variables,
                              !.handler = sv.handler, !.called = sv.called],
                   "find_sequence_length_node"),
             c, inp)

\* Mutant of parse_unit_rnn: empty weights do not end the call.
parse_unit_rnn_weights_continue(st, weights, rewriter, c, inp) ==
    parse_unit_rnn_state_variables(
        Stage([st EXCEPT !.context.weights = weights], "get_state_variables"),
        get_state_variables([st.context EXCEPT !.weights = weights], rewriter, inp),
        c, inp)

\* parse_unit_rnn, lines 103-108: weights.
parse_unit_rnn_weights(st, weights, rewriter, c, inp) ==
    IF weights = {}
    THEN Return(st, "False")
    ELSE parse_unit_rnn_state_variables(
             Stage([st EXCEPT !.context.weights = weights], "get_state_variables"),
             get_state_variables([st.context EXCEPT !.weights = weights], rewriter, inp),
             c, inp)

\* parse_unit_rnn, lines 96-101: cell_match.
parse_unit_rnn_cell_match(st, cell_match, rewriter, c, inp) ==
    IF cell_match = 0
    THEN Return(st, "False")
    ELSE parse_unit_rnn_weights(
             Stage([st EXCEPT !.context.cell_match = cell_match],
                   "get_weight_and_bias"),
             get_weight_and_bias(inp), rewriter, c, inp)

parse_unit_rnn(st, rewriter, c, inp) ==
    parse_unit_rnn_cell_match(Stage(st, "find_cell"), find_cell(inp), rewriter, c, inp)

\* parse_rnn_loop fills loop_properties when it succeeds.
parse_rnn_loop(context, c, inp) ==
    [context EXCEPT !.scan_inputs_initial_values =
                        [k \in 1..inp.n_scan |-> ScanInputId(c, k)]]

\* need_rewrite, lines 73-80: p is what parse_unit_rnn did.
need_rewrite_is_valid(p, inp) ==
    IF p.ret # "True"
    THEN p
    ELSE Return(Stage(p, "is_valid"), IF ~is_valid(inp) THEN "False" ELSE "True")

need_rewrite(G, context, rewriter, c, inp) ==
    IF ~inp.loop_ok
    THEN Return(Stage(Start(G, context, rewriter), "parse_rnn_loop"), "False")
    ELSE need_rewrite_is_valid(
             parse_unit_rnn(
                 Stage(Start(G, parse_rnn_loop(context, c, inp), rewriter),
                       "parse_rnn_loop"),
                 rewriter, c, inp),
             inp)

\* --------------------------------------------------- inputs of need_rewrite
ProducerKinds == {"other", "select_match", "select_nomatch"}

\* Whether a stage runs depends only on what the stages before it were told.
Runs(stage, c, inp) ==
    stage \in Range(need_rewrite(g, ctx[c], rw, c, inp).ran)

\* The reports the stage may get: any of S if it runs, the default otherwise.
Told(stage, c, inp, S, default) ==
    IF Runs(stage, c, inp) THEN S ELSE {default}

\* The state need_rewrite(context) leaves for reports inp.
AfterNeedRewrite(c, inp, o) ==
    /\ ctx' = [ctx EXCEPT ![c] =
                  [o.context EXCEPT
                      !.region = inp, !.result = o.ret, !.ran = o.ran,
                      !.called = o.called, !.picked = o.picked,
                      !.selected = IF "find_sequence_length_node" \in Range(o.ran)
                                   THEN o.handler ELSE 0]]
    /\ rw' = [rw EXCEPT !.state_variable_handler = o.handler]
    /\ g' = o.g
    /\ fsv' = fsv

\* need_rewrite(context) of context number c.
NeedRewrite(c) ==
    /\ ctx[c].result = "none"
    /\ \E loop_ok \in BOOLEAN :
       \E n_scan \in (IF loop_ok THEN 0..MaxScanInputs ELSE {0}) :
       \E n_match \in (IF loop_ok THEN 0..MaxMatches ELSE {0}) :
       \E r2 \in {[NoRegion EXCEPT !.loop_ok = loop_ok, !.n_scan = n_scan,
                                   !.n_match = n_match]} :
       \E weights_ok \in Told("get_weight_and_bias", c, r2, BOOLEAN, FALSE) :
       \E r3 \in {[r2 EXCEPT !.weights_ok = weights_ok]} :
       \E found \in Told("get_state_variables", c, r3,
                         SUBSET FinderIds(rw.state_variable_handlers), {}) :
       \E r4 \in {[r3 EXCEPT !.found = found]} :
       /\ found \subseteq need_rewrite(g, ctx[c], rw, c, r4).called
       /\ \E producer \in Told("find_sequence_length_node", c, r4, ProducerKinds, "none") :
          \E r5 \in {[r4 EXCEPT !.producer = producer]} :
          \E attrs_ok \in Told("parse_attributes", c, r5, BOOLEAN, FALSE) :
          \E r6 \in {[r5 EXCEPT !.attrs_ok = attrs_ok]} :
          \E valid_ok \in Told("is_valid", c, r6, BOOLEAN, FALSE) :
          \E inp \in {[r6 EXCEPT !.valid_ok = valid_ok]} :
              AfterNeedRewrite(c, inp, need_rewrite(g, ctx[c], rw, c, inp))

\* ------------------------------------------------------------------ rewrite
\* The steps of rewrite work on st = [g, context].
WId(c) == <<"W", c>>
RId(c) == <<"R", c>>
BId(c) == <<"B", c>>
InitId(c, v) == <<"init_" \o v, c>>

\* process_weights_and_bias of a variant: binds the roles W, R and B.
process_weights_and_bias(st, c) ==
    [st EXCEPT !.context.onnx_input_ids["W"] = WId(c),
               !.context.onnx_input_ids["R"] = RId(c),
               !.context.onnx_input_ids["B"] = BId(c)]

\* process_seq_length, line 228: shape_node.
shape_node(st) ==
    make_node(st.g, "Shape", <<st.context.onnx_input_ids["X"]>>, <<>>, NoShape, NoDtype)

\* process_seq_length, lines 231-235: cast_shape_node.
cast_shape_node(st) ==
    make_node(shape_node(st), "Cast", <<Output0(LastName(shape_node(st)))>>, <<FLOAT>>,
              get_shape(shape_node(st), Output0(LastName(shape_node(st)))), NoDtype)

\* process_seq_length, lines 237-239: batchsize_node.
batchsize_node(st) ==
    make_slice(cast_shape_node(st), Output0(LastName(cast_shape_node(st))), 0, 1, 2)

\* process_seq_length, lines 242-245: repeat_node.
repeat_node(st) ==
    make_node(batchsize_node(st), "Cast", <<Output0(LastName(batchsize_node(st)))>>,
              <<INT64>>, NoShape, NoDtype)

\* process_seq_length, lines 247-249: timestep_node.
timestep_node(st) ==
    make_slice(repeat_node(st), Output0(LastName(cast_shape_node(st))), 0, 0, 1)

\* process_seq_length, line 250: tile_node.
tile_node(st) ==
    make_node(timestep_node(st), "Tile",
              <<Output0(LastName(timestep_node(st))), Output0(LastName(repeat_node(st)))>>,
              <<>>, NoShape, NoDtype)

\* process_seq_length, lines 253-256: the synthesized seq_len_node.
seq_len_node(st) ==
    make_node(tile_node(st), "Cast", <<Output0(LastName(tile_node(st)))>>, <<INT32>>,
              NoShape, NoDtype)

\* Mutant of process_seq_length: the final Cast to INT32 is left out and the
\* Tile output is bound.
process_seq_length_nocast(st) ==
    IF st.context.seq_len_node = NoneId
    THEN [g |-> tile_node(st),
          context |-> [st.context EXCEPT !.onnx_input_ids["sequence_lens"] =
                                             Output0(LastName(tile_node(st)))]]
    ELSE [g |-> batchsize_node(st),
          context |-> [st.context EXCEPT !.onnx_input_ids["sequence_lens"] =
                                             st.context.seq_len_node]]

\* process_seq_length
process_seq_length(st) ==
    IF st.context.seq_len_node = NoneId
    THEN [g |-> seq_len_node(st),
          context |-> [st.context EXCEPT !.onnx_input_ids["sequence_lens"] =
                                             Output0(LastName(seq_len_node(st)))]]
    ELSE [g |-> batchsize_node(st),
          context |-> [st.context EXCEPT !.onnx_input_ids["sequence_lens"] =
                                             st.context.seq_len_node]]

\* process_var_init_nodes of a variant: binds initial_<v> for the state
\* variables of the context.
process_var_init_nodes(st, c) ==
    [st EXCEPT !.context.onnx_input_ids =
        [r \in Roles |->
            IF r = "initial_h" /\ "h" \in DictKeys(st.context.state_variables)
            THEN InitId(c, "h")
            ELSE IF r = "initial_c" /\ "c" \in DictKeys(st.context.state_variables)
                 THEN InitId(c, "c")
                 ELSE st.context.onnx_input_ids[r]]]

\* create_rnn_node of a variant: one fused node over onnx_input_ids whose
\* first output has the onnx layout [time, num_directions, batch, hidden];
\* rewrite stores it in context.rnn_node (lines 175-176).
RnnInputs(context) ==
    <<context.onnx_input_ids["X"], context.onnx_input_ids["W"],
      context.onnx_input_ids["R"], context.onnx_input_ids["B"],
      context.onnx_input_ids["sequence_lens"], context.onnx_input_ids["initial_h"],
      context.onnx_input_ids["initial_c"]>>
create_rnn_node(st, shape) ==
    [g |-> make_node(st.g, "RNN", RnnInputs(st.context), <<>>, shape, FLOAT),
     context |-> [st.context EXCEPT !.rnn_node = st.g.next]]

\* connect_unit_rnn_output_to_graph, lines 286-292: squeeze_node.
squeeze_node(G, context, squeeze_output_shape) ==
    make_node(G, "Squeeze", <<Output0(context.rnn_node)>>, <<1>>, squeeze_output_shape,
              get_dtype(G, Output0(context.rnn_node)))

\* connect_unit_rnn_output_to_graph, line 293.
rewire_gather_output(G, gather_output_id) ==
    replace_all_inputs(G, gather_output_id, Output0(LastName(G)))

rnn_output_shape(G, context) == get_shape(G, Output0(context.rnn_node))

\* Mutant of connect_unit_rnn_output_to_graph: the Squeeze output shape
\* drops the batch axis instead of the direction axis.
connect_unit_rnn_output_to_graph_axis(G, context) ==
    IF context.scan_outputs_exits = <<>>
    THEN G
    ELSE rewire_gather_output(
             squeeze_node(G, context,
                          <<rnn_output_shape(G, context)[1],
                            rnn_output_shape(G, context)[2],
                            rnn_output_shape(G, context)[4]>>),
             context.scan_outputs_exits[1])

\* connect_unit_rnn_output_to_graph
connect_unit_rnn_output_to_graph(G, context) ==
    IF context.scan_outputs_exits = <<>>
    THEN G
    ELSE rewire_gather_output(
             squeeze_node(G, context,
                          <<rnn_output_shape(G, context)[1],
                            rnn_output_shape(G, context)[3],
                            rnn_output_shape(G, context)[4]>>),
             context.scan_outputs_exits[1])

\* The connectors process_outputs invokes, in the order of the handler's items.
Connectors(rewriter) ==
    [k \in DOMAIN rewriter.state_variable_handlers[rewriter.state_variable_handler] |->
        <<rewriter.state_variable_handler,
          rewriter.state_variable_handlers[rewriter.state_variable_handler][k]>>]

\* The record of a step of rewrite: what it is and what it finds in the
\* context when it starts.
StepOf(st, name) ==
    [name |-> name,
     sequence_lens |-> st.context.onnx_input_ids["sequence_lens"],
     rnn_node |-> st.context.rnn_node]
Step(st, name) == [st EXCEPT !.context.steps = Append(@, StepOf(st, name))]

\* process_outputs, lines 265-271: the connectors of self.state_variable_handler
\* one after the other, then connect_unit_rnn_output_to_graph.
process_outputs(st, rewriter) ==
    [g |-> connect_unit_rnn_output_to_graph(st.g, st.context),
     context |-> [st.context EXCEPT
                     !.connectors = Connectors(rewriter),
                     !.steps = @ \o [k \in DOMAIN Connectors(rewriter) |->
                                        StepOf(st, "output_connector")]
                                \o <<StepOf(st, "connect_unit_rnn_output_to_graph")>>]]

REWRITER_RESULT_OK == "OK"

\* rewrite, line 183: the result, with the graph and the context it leaves.
rewrite_return(st) ==
    [g |-> st.g, context |-> st.context, ret |-> REWRITER_RESULT_OK]

\* Mutant of rewrite: the fused node is built before the sequence lengths
\* and the initial states are bound.
rewrite_node_first(G, context, rewriter, c, shape) ==
    rewrite_return(
        process_outputs(
            Step(process_var_init_nodes(
                     Step(process_seq_length(
                              Step(create_rnn_node(
                                       Step(process_weights_and_bias(
                                                Step([g |-> G, context |-> context],
                                                     "process_weights_and_bias"),
                                                c),
                                            "create_rnn_node"),
                                       shape),
                                   "process_seq_length")),
                          "process_var_init_nodes"),
                     c),
                 "process_outputs"),
            rewriter))

\* rewrite, lines 163-183.
rewrite(G, context, rewriter, c, shape) ==
    rewrite_return(
        process_outputs(
            Step(create_rnn_node(
                     Step(process_var_init_nodes(
                              Step(process_seq_length(
                                       Step(process_weights_and_bias(
                                                Step([g |-> G, context |-> context],
                                                     "process_weights_and_bias"),
                                                c),
                                            "process_seq_length")),
                                   "process_var_init_nodes"),
                              c),
                          "create_rnn_node"),
                     shape),
                 "process_outputs"),
            rewriter))

RnnShapes == {<<-1, 1, -1, HiddenSize>>, <<MaxT, 1, MaxT + MaxBatch, HiddenSize>>}

\* The names of the nodes made between graph G and graph H.
Added(G, H) == [k \in 1..(H.next - G.next) |-> G.next + k - 1]

\* rewrite(context) of context number c, called after need_rewrite(context)
\* returned True.  loop_properties.scan_outputs_exits is read here only.
Rewrite(c) ==
    /\ ctx[c].result = "True"
    /\ ~ctx[c].rewritten
    /\ \E exits \in {<<>>, <<ExitId(c)>>}, shape \in RnnShapes :
       \E o \in {rewrite(g, [ctx[c] EXCEPT !.scan_outputs_exits = exits], rw, c, shape)} :
          /\ g' = o.g
          /\ ctx' = [ctx EXCEPT ![c] =
                        [o.context EXCEPT !.rewritten = TRUE, !.added = Added(g, o.g),
                                          !.rewrite_result = o.ret]]
          /\ rw' = rw
          /\ fsv' = fsv

\* ------------------------------------------------ what the onnx nodes compute
\* A tensor value is [dtype, val]: a 1-D tensor of integers-valued elements.
Pow2(n) == 2 ^ n

RECURSIVE BitLength(_)
BitLength(n) == IF n <= 0 THEN 0 ELSE 1 + BitLength(n \div 2)

\* The float32 nearest to the natural number n (round to nearest, ties to
\* even): integers beyond 2^24 are not all representable.
RoundFloat32(n) ==
    IF BitLength(n) <= FloatMantissaBits THEN n
    ELSE LET q == Pow2(BitLength(n) - FloatMantissaBits)
             lo == n - (n % q)
         IN IF 2 * (n % q) < q THEN lo
            ELSE IF 2 * (n % q) > q THEN lo + q
                 ELSE IF (lo \div q) % 2 = 0 THEN lo ELSE lo + q

\* Cast of an integer-valued element.  To FLOAT it rounds to float32; to INT64
\* or INT32 it keeps the value, every value here being below 2^31.
CastElem(to, n) ==
    IF to = FLOAT THEN RoundFloat32(n) ELSE n

RECURSIVE Repeat(_, _)
Repeat(s, n) == IF n <= 0 THEN <<>> ELSE s \o Repeat(s, n - 1)

NoValue == [dtype |-> NoDtype, val |-> <<>>]

\* The value of tensor id when the graph runs with tensor xid of shape xshape.
RECURSIVE Eval(_, _, _, _)
Eval(G, id, xid, xshape) ==
    LET i == get_node_by_output(G, id) IN
    IF i = 0 THEN NoValue ELSE
    LET n == G.nodes[i] IN
    IF n.type = "Shape"
    THEN IF n.input[1] = xid THEN [dtype |-> INT64, val |-> xshape] ELSE NoValue
    ELSE IF n.type = "Cast"
    THEN LET a == Eval(G, n.input[1], xid, xshape)
         IN [dtype |-> n.attr[1],
             val |-> [k \in DOMAIN a.val |-> CastElem(n.attr[1], a.val[k])]]
    ELSE IF n.type = "Slice"
    THEN LET a == Eval(G, n.input[1], xid, xshape)
         IN [dtype |-> a.dtype, val |-> SubSeq(a.val, n.attr[2] + 1, n.attr[3])]
    ELSE IF n.type = "Tile"
    THEN LET a == Eval(G, n.input[1], xid, xshape)
             r == Eval(G, n.input[2], xid, xshape)
         IN IF r.val = <<>> THEN NoValue
            ELSE [dtype |-> a.dtype, val |-> Repeat(a.val, r.val[1])]
    ELSE NoValue

\* ------------------------------------- _find_state_variable_with_select
\* The loop body around one loop variable.  A node of it is its name, its
\* kind (ProducerKinds), its inputs, and the op types of the consumers of its
\* first output.
NextIterationInput == <<"next_iteration_input", 0>>
SwitchTrueIdentityOutputs == {<<"switch_true_identity_output", k>> : k \in 1..2}

BodyNode(name, kind, input, out_consumers) ==
    [name |-> name, kind |-> kind, input |-> input, out_consumers |-> out_consumers]

is_tf_tensor_array_write_op(type) == type = "TensorArrayWriteV3"

\* A variable of loop_properties.
LoopVariable(name, next_iteration_input, switch_true_identity_output) ==
    [name |-> name, next_iteration_input |-> next_iteration_input,
     switch_true_identity_output |-> switch_true_identity_output]

None == [name |-> 0]

\* lines 303-312: all select not followed by TensorArrayWrite.
select_not_followed(consumers) ==
    SelectSeq(consumers,
              LAMBDA c : /\ is_tf_select_op(c.kind)
                         /\ \A k \in DOMAIN c.out_consumers :
                                ~is_tf_tensor_array_write_op(c.out_consumers[k]))

\* lines 322-328: checker.
checker(state_variable, next_iteration_input, switch_true_identity_consumers) ==
    /\ state_variable.next_iteration_input = next_iteration_input
    /\ \A k \in DOMAIN switch_true_identity_consumers :
           state_variable.switch_true_identity_output
               \in Range(switch_true_identity_consumers[k].input)

\* loop_properties.get_variables(checker)
get_variables(variables, next_iteration_input, switch_true_identity_consumers) ==
    SelectSeq(variables,
              LAMBDA v : checker(v, next_iteration_input,
                                 switch_true_identity_consumers))

\* lines 330-334: the return, with the list argument as the call leaves it.
find_return(state_variables, next_iteration_input, switch_true_identity_consumers) ==
    [ret |-> IF Len(state_variables) # 1 THEN None ELSE state_variables[1],
     next_iteration_input |-> next_iteration_input,
     switch_true_identity_consumers |-> switch_true_identity_consumers]

find_variables(variables, next_iteration_input, switch_true_identity_consumers) ==
    find_return(get_variables(variables, next_iteration_input,
                              switch_true_identity_consumers),
                next_iteration_input, switch_true_identity_consumers)

\* Mutant of _find_state_variable_with_select: the first free select is
\* followed even when there are several.
find_after_select_first(variables, select, next_iteration_input, switch_true_identity_consumers) ==
    IF Len(select) >= 1
    THEN find_variables(variables, Output0(select[1].name),
                        Append(switch_true_identity_consumers, select[1]))
    ELSE find_variables(variables, next_iteration_input,
                        switch_true_identity_consumers)

\* lines 313-315: with one such select, look behind it.
find_after_select(variables, select, next_iteration_input, switch_true_identity_consumers) ==
    IF Len(select) = 1
    THEN find_variables(variables, Output0(select[1].name),
                        Append(switch_true_identity_consumers, select[1]))
    ELSE find_variables(variables, next_iteration_input,
                        switch_true_identity_consumers)

\* _find_state_variable_with_select: variables are the loop variables of
\* context.loop_properties, consumers is
\* g.find_output_consumers(next_iteration_input).
_find_state_variable_with_select(variables, consumers, next_iteration_input, switch_true_identity_consumers) ==
    find_after_select(variables, select_not_followed(consumers),
                      next_iteration_input, switch_true_identity_consumers)

\* Sequences over S of length at most n.
SeqUpTo(S, n) == UNION {[1..k -> S] : k \in 0..n}

\* The consumers of next_iteration_input: consumer number k is node k.  A
\* node that is no select op stands for any such node.
ConsumerShapes ==
    {[kind |-> "other", input |-> <<>>, out_consumers |-> <<>>]}
    \cup {[kind |-> "select_match", input |-> <<NextIterationInput, s>>,
           out_consumers |-> w] :
              s \in SwitchTrueIdentityOutputs,
              w \in {<<"Identity">>, <<"Identity", "TensorArrayWriteV3">>}}
ConsumerLists ==
    {[k \in DOMAIN l |->
         BodyNode(k, l[k].kind, l[k].input, l[k].out_consumers)] :
         l \in SeqUpTo(ConsumerShapes, MaxConsumers)}

\* The loop variables: variable number k is named k.
VariableShapes ==
    ({NextIterationInput} \cup {Output0(k) : k \in 1..MaxConsumers})
        \X SwitchTrueIdentityOutputs
VariableLists ==
    {[k \in DOMAIN l |-> LoopVariable(k, l[k][1], l[k][2])] :
         l \in SeqUpTo(VariableShapes, MaxVariables)}

\* The consumers of switch_true_identity_output the caller lists.
ListedConsumers ==
    {<<>>} \cup
    {<<BodyNode(MaxConsumers + 1, "other", i, <<>>)>> :
        i \in {<< <<"switch_true_identity_output", 1>> >>,
               << <<"switch_true_identity_output", 1>>,
                  <<"switch_true_identity_output", 2>> >>}}

NoCall ==
    [pc |-> "idle", variables |-> <<>>, consumers |-> <<>>, listed |-> <<>>,
     ret |-> None, next_iteration_input |-> NextIterationInput,
     switch_true_identity_consumers |-> <<>>]

\* One call of _find_state_variable_with_select.
FindStateVariableWithSelect ==
    /\ fsv.pc = "call"
    /\ \E o \in {_find_state_variable_with_select(
                     fsv.variables, fsv.consumers, NextIterationInput, fsv.listed)} :
          fsv' = [fsv EXCEPT !.pc = "done", !.ret = o.ret,
                             !.next_iteration_input = o.next_iteration_input,
                             !.switch_true_identity_consumers =
                                 o.switch_true_identity_consumers]
    /\ UNCHANGED <<g, rw, ctx>>

\* ------------------------------------------------------------ specification
Init ==
    /\ g = InitGraph
    /\ \E hs \in HandlerLists :
          rw = [state_variable_handler |-> 0, state_variable_handlers |-> hs]
    /\ ctx = [c \in Contexts |-> UnitRnnContext]
    /\ fsv = NoCall

Next ==
    \/ \E c \in Contexts : NeedRewrite(c)
    \/ \E c \in Contexts : Rewrite(c)

Spec == Init /\ [][Next]_vars

\* The calls of _find_state_variable_with_select, over every loop body within
\* the bounds.
InitFind ==
    /\ g = InitGraph
    /\ rw = [state_variable_handler |-> 0, state_variable_handlers |-> << <<"h">> >>]
    /\ ctx = [c \in Contexts |-> UnitRnnContext]
    /\ \E variables \in VariableLists, consumers \in ConsumerLists,
          listed \in ListedConsumers :
          fsv = [NoCall EXCEPT !.pc = "call", !.variables = variables,
                               !.consumers = consumers, !.listed = listed,
                               !.switch_true_identity_consumers = listed]

NextFind == FindStateVariableWithSelect

SpecFind == InitFind /\ [][NextFind]_vars

\* ================================================================== claims
Called(c) == ctx[c].result # "none"
Ran(c, stage) == stage \in Range(ctx[c].ran)
Handlers == rw.state_variable_handlers

\* All finders of handler number i return a state variable for region c.
Resolves(c, i) ==
    \A v \in Range(Handlers[i]) : <<i, v>> \in ctx[c].region.found

\* C1: need_rewrite(context) leaves the target graph as it found it, whatever
\* its stages report and whether it returns True, returns False or raises;
\* only the context and the rewriter's own fields change.
C1_NeedRewriteKeepsGraph ==
    [][\A c \in Contexts :
          (ctx[c].result = "none" /\ ctx'[c].result # "none") =>
              /\ g' = g
              /\ \A d \in Contexts \ {c} : ctx'[d] = ctx[d]]_vars

\* C1 witness: need_rewrite has returned True for one region and has not
\* returned True for another, with the graph still the initial one.
C1_Witness ==
    \E c, d \in Contexts :
        /\ ctx[c].result = "True"
        /\ ctx[d].result \in {"False", "raise"}
        /\ g = InitGraph

\* C2: with zero matches or two or more matches of the cell pattern,
\* need_rewrite returns False and context.cell_match stays None; a match is
\* bound only when the match list has exactly one element.
C2_AmbiguousOrNoMatch ==
    \A c \in Contexts :
        /\ (Called(c) /\ ctx[c].region.n_match # 1) =>
               (ctx[c].result = "False" /\ ctx[c].cell_match = 0)
        /\ ctx[c].cell_match # 0 =>
               (ctx[c].region.n_match = 1 /\ ctx[c].cell_match = 1)

\* C2 witness: find_cell ran on a region with two matches and on a region
\* with one.
C2_Witness ==
    \E c, d \in Contexts :
        /\ Ran(c, "find_cell") /\ ctx[c].region.n_match >= 2
        /\ ctx[c].result = "False"
        /\ ctx[d].cell_match = 1

\* C3 as stated: with exactly 2 scan inputs need_rewrite returns False
\* regardless of every other condition.
C3_TwoScanInputsReturnFalse ==
    \A c \in Contexts :
        (Called(c) /\ Len(ctx[c].scan_inputs_initial_values) = 2) =>
            ctx[c].result = "False"

\* C3 amended: with exactly 2 scan inputs need_rewrite never returns True; it
\* returns False unless find_sequence_length_node, which runs before the
\* scan-input check, raised because the state variable's producer is a
\* select op that does not match the sequence-length pattern.
C3_TwoScanInputsNeverTrue ==
    \A c \in Contexts :
        (Called(c) /\ Len(ctx[c].scan_inputs_initial_values) = 2) =>
            /\ ctx[c].result # "True"
            /\ ctx[c].result = "raise" <=>
                   (Ran(c, "find_sequence_length_node")
                    /\ ctx[c].region.producer = "select_nomatch")

\* C3 witness: the scan-input check itself ran on a region with 2 scan
\* inputs, everything before it having succeeded.
C3_Witness ==
    \E c \in Contexts :
        /\ Len(ctx[c].scan_inputs_initial_values) = 2
        /\ Ran(c, "scan_inputs")
        /\ ctx[c].result = "False"

\* C4: the selected handler is the first handler of state_variable_handlers,
\* in list order, all of whose finders return a state variable, and the
\* rewriter's state_variable_handler is that list element; with handlers
\* [{h, c}, {h}], c not found and both h found, it is the second handler.
C4_FirstResolvingHandlerWins ==
    \A c \in Contexts :
        /\ ctx[c].selected # 0 =>
               /\ ctx[c].selected \in DOMAIN Handlers
               /\ Resolves(c, ctx[c].selected)
               /\ \A j \in 1..(ctx[c].selected - 1) : ~Resolves(c, j)
        /\ (Ran(c, "get_state_variables") /\ \E i \in DOMAIN Handlers : Resolves(c, i))
               => ctx[c].selected # 0
        /\ (/\ Handlers = << <<"h", "c">>, <<"h">> >>
            /\ Ran(c, "get_state_variables")
            /\ ctx[c].region.found = {<<1, "h">>, <<2, "h">>})
               => (ctx[c].selected = 2 /\ Ran(c, "find_sequence_length_node"))

\* C4 witness: handlers [{h, c}, {h}], the finder of c fails, both finders
\* of h succeed, and the second handler is selected.
C4_Witness ==
    \E c \in Contexts :
        /\ Handlers = << <<"h", "c">>, <<"h">> >>
        /\ ctx[c].region.found = {<<1, "h">>, <<2, "h">>}
        /\ ctx[c].selected = 2

LaterStages == {"find_sequence_length_node", "scan_inputs", "parse_attributes", "is_valid"}

\* C5: when every handler has a finder that returns nothing, need_rewrite
\* returns False without raising, and the sequence-length resolver, the
\* scan-input check and attribute parsing are not run.
C5_NoHandlerResolves ==
    \A c \in Contexts :
        (Called(c) /\ \A i \in DOMAIN Handlers : ~Resolves(c, i)) =>
            /\ ctx[c].result = "False"
            /\ Range(ctx[c].ran) \cap LaterStages = {}
            /\ ctx[c].selected = 0

\* C5 witness: get_state_variables ran, a finder of the first handler found
\* its variable, and still no handler resolved.
C5_Witness ==
    \E c \in Contexts :
        /\ Ran(c, "get_state_variables")
        /\ ctx[c].region.found # {}
        /\ \A i \in DOMAIN Handlers : ~Resolves(c, i)
        /\ ctx[c].result = "False"

\* C6: find_sequence_length_node raises, and need_rewrite with it, when the
\* producer is a select op around which the sequence-length pattern does not
\* match; when the producer is not a select op it returns None without
\* raising and need_rewrite goes on to the scan-input check.
C6_SelectWithoutPatternRaises ==
    \A c \in Contexts :
        Ran(c, "find_sequence_length_node") =>
            /\ ctx[c].region.producer = "select_nomatch" =>
                   (ctx[c].result = "raise" /\ ~Ran(c, "scan_inputs")
                    /\ ctx[c].seq_len_node = NoneId)
            /\ ctx[c].region.producer = "other" =>
                   (ctx[c].result # "raise" /\ Ran(c, "scan_inputs")
                    /\ ctx[c].seq_len_node = NoneId)
            /\ ctx[c].region.producer = "select_match" =>
                   (ctx[c].result # "raise" /\ ctx[c].seq_len_node = SeqLenId(c))

\* C6 witness: one region raised on an unmatched select, another has a
\* producer that is no select and got past the resolver.
C6_Witness ==
    \E c, d \in Contexts :
        /\ ctx[c].region.producer = "select_nomatch" /\ ctx[c].result = "raise"
        /\ ctx[d].region.producer = "other" /\ Ran(d, "scan_inputs")

\* The connectors rewrite(context) invoked are those of the handler that
\* need_rewrite selected for the same context.
OwnConnectors(c) ==
    \A k \in DOMAIN ctx[c].connectors : ctx[c].connectors[k][1] = ctx[c].selected

\* C7: contexts share no mutable state but the graph: whatever calls on
\* other contexts came in between, rewrite(context) invokes the connectors
\* of the handler that resolved during need_rewrite of that same context.
C7_RewriteUsesOwnHandler ==
    \A c \in Contexts : ctx[c].rewritten => OwnConnectors(c)

TimeSteps == (1..MaxT) \cup {Pow2(FloatMantissaBits) + 1}
XShapes == {<<t, b, 1>> : t \in TimeSteps, b \in 1..MaxBatch}

Synthesized(c) ==
    ctx[c].rewritten /\ ctx[c].seq_len_node = NoneId

SequenceLens(c, xshape) ==
    Eval(g, ctx[c].onnx_input_ids["sequence_lens"], ctx[c].onnx_input_ids["X"], xshape)

\* C8: with X of shape [T, B, F] and no explicit length source,
\* onnx_input_ids["sequence_lens"] is a tensor of exactly B elements, each
\* equal to T, of type int32.
C8_SynthesizedLengths ==
    \A c \in Contexts :
        Synthesized(c) =>
            \A xshape \in XShapes :
                SequenceLens(c, xshape) =
                    [dtype |-> INT32, val |-> [k \in 1..xshape[2] |-> xshape[1]]]

\* The same for the time steps a float32 holds exactly.
C8_SynthesizedLengthsSmallT ==
    \A c \in Contexts :
        Synthesized(c) =>
            \A xshape \in {x \in XShapes : x[1] <= Pow2(FloatMantissaBits)} :
                SequenceLens(c, xshape) =
                    [dtype |-> INT32, val |-> [k \in 1..xshape[2] |-> xshape[1]]]

AddedNodes(c) == [k \in DOMAIN ctx[c].added |-> g.nodes[ctx[c].added[k]]]
AddedTypes(c) == [k \in DOMAIN ctx[c].added |-> AddedNodes(c)[k].type]
NodesOfType(c, t) == {k \in DOMAIN ctx[c].added : AddedTypes(c)[k] = t}
Consumes(id) == {i \in DOMAIN g.nodes : id \in Range(g.nodes[i].input)}

\* C9: with scan_outputs_exits non-empty and the fused node's first output
\* of shape [T, 1, B, H], connect_unit_rnn_output_to_graph creates one
\* Squeeze over axis 1 of output shape [T, B, H] and of the fused output's
\* dtype, and no node of the graph consumes the exit id any more: its
\* consumers read the Squeeze output; with no exit, no node is created and
\* no input is rewired.
C9_OutputReconciliation ==
    \A c \in Contexts :
        ctx[c].rewritten =>
            LET rnn == g.nodes[ctx[c].rnn_node]
                last == AddedNodes(c)[Len(ctx[c].added)]
            IN IF ctx[c].scan_outputs_exits # <<>>
               THEN /\ Cardinality(NodesOfType(c, "Squeeze")) = 1
                    /\ last.type = "Squeeze"
                    /\ last.input = <<Output0(rnn.name)>>
                    /\ last.attr = <<1>>
                    /\ last.shape = <<rnn.shape[1], rnn.shape[3], rnn.shape[4]>>
                    /\ last.dtype = rnn.dtype
                    /\ Consumes(ctx[c].scan_outputs_exits[1]) = {}
                    /\ g.nodes[c].input = <<Output0(last.name), OtherId(c)>>
               ELSE /\ NodesOfType(c, "Squeeze") = {}
                    /\ last = rnn
                    /\ g.nodes[c] = InitGraph.nodes[c]
                    /\ Consumes(Output0(rnn.name)) = {}

\* C9 witness: one region was rewritten with an exit and a fused output of
\* static shape, another with no exit.
C9_Witness ==
    \E c, d \in Contexts :
        /\ ctx[c].rewritten /\ ctx[c].scan_outputs_exits # <<>>
        /\ g.nodes[ctx[c].rnn_node].shape[1] = MaxT
        /\ ctx[d].rewritten /\ ctx[d].scan_outputs_exits = <<>>

\* The region of the end-to-end scenario: one cell match, weights, a single
\* scan input, the only handler is for ["h"] and resolves, no select.
EndToEndRegion(c) ==
    /\ Handlers = << <<"h">> >>
    /\ Called(c)
    /\ ctx[c].region.loop_ok
    /\ ctx[c].region.n_match = 1
    /\ ctx[c].region.weights_ok
    /\ ctx[c].region.n_scan = 1
    /\ ctx[c].region.found = {<<1, "h">>}
    /\ ctx[c].region.producer = "other"
    /\ ctx[c].region.attrs_ok
    /\ ctx[c].region.valid_ok

MainOutputRewired(c) ==
    ctx[c].scan_outputs_exits # <<>> =>
        g.nodes[c].input[1] = Output0(ctx[c].added[Len(ctx[c].added)])

SeqLenSubgraph(c) ==
    {k \in DOMAIN ctx[c].added : AddedTypes(c)[k] \in {"Shape", "Cast", "Slice", "Tile"}}

\* C10 as stated: in the end-to-end scenario need_rewrite returns True and
\* rewrite adds exactly one fused RNN node and a sequence-length subgraph of
\* 4 new nodes, and invokes the "h" connector and the main rewiring.
C10_EndToEndFourNodes ==
    \A c \in Contexts :
        EndToEndRegion(c) =>
            /\ ctx[c].result = "True"
            /\ ctx[c].rewritten =>
                   /\ Cardinality(NodesOfType(c, "RNN")) = 1
                   /\ Cardinality(SeqLenSubgraph(c)) = 4
                   /\ ctx[c].connectors = << <<1, "h">> >>
                   /\ MainOutputRewired(c)

\* C10 amended: in the end-to-end scenario need_rewrite returns True and
\* rewrite adds exactly one fused RNN node and a sequence-length subgraph of
\* 7 new nodes (Shape, Cast, Slice, Cast, Slice, Tile, Cast, in this order,
\* before the fused node), and invokes the "h" connector and the main
\* sequence-output rewiring.
C10_EndToEndSevenNodes ==
    \A c \in Contexts :
        EndToEndRegion(c) =>
            /\ ctx[c].result = "True"
            /\ ctx[c].rewritten =>
                   /\ Cardinality(NodesOfType(c, "RNN")) = 1
                   /\ Cardinality(SeqLenSubgraph(c)) = 7
                   /\ SubSeq(AddedTypes(c), 1, 8) =
                          <<"Shape", "Cast", "Slice", "Cast", "Slice", "Tile", "Cast", "RNN">>
                   /\ Len(ctx[c].added) =
                          IF ctx[c].scan_outputs_exits = <<>> THEN 8 ELSE 9
                   /\ g.nodes[ctx[c].rnn_node].input[5] =
                          Output0(ctx[c].added[7])
                   /\ ctx[c].connectors = << <<1, "h">> >>
                   /\ MainOutputRewired(c)

\* C10 witness: the end-to-end region was rewritten, its exit consumed.
C10_Witness ==
    \E c \in Contexts :
        /\ EndToEndRegion(c)
        /\ ctx[c].rewritten
        /\ ctx[c].scan_outputs_exits # <<>>

\* C11 as stated: when need_rewrite found an explicit sequence-length source,
\* process_seq_length binds the role "sequence_lens" to that node's first
\* output and adds no Shape, Cast, Slice or Tile node to the graph; such
\* nodes are added only when the resolver returned None.
C11_ExplicitSourceNoSynthesis ==
    \A c \in Contexts :
        ctx[c].rewritten =>
            /\ ctx[c].seq_len_node # NoneId =>
                   /\ ctx[c].onnx_input_ids["sequence_lens"] = ctx[c].seq_len_node
                   /\ SeqLenSubgraph(c) = {}
            /\ SeqLenSubgraph(c) # {} => ctx[c].seq_len_node = NoneId

\* The stages of need_rewrite in the order of the code.
StageOrder ==
    <<"parse_rnn_loop", "find_cell", "get_weight_and_bias", "get_state_variables",
      "find_sequence_length_node", "scan_inputs", "parse_attributes", "is_valid">>

\* What a stage is told about region c is a soft mismatch.
Mismatch(c, stage) ==
    CASE stage = "parse_rnn_loop" -> ~ctx[c].region.loop_ok
      [] stage = "find_cell" -> ctx[c].region.n_match # 1
      [] stage = "get_weight_and_bias" -> ~ctx[c].region.weights_ok
      [] stage = "get_state_variables" -> \A i \in DOMAIN Handlers : ~Resolves(c, i)
      [] stage = "find_sequence_length_node" -> FALSE
      [] stage = "scan_inputs" -> ctx[c].region.n_scan # 1
      [] stage = "parse_attributes" -> ~ctx[c].region.attrs_ok
      [] stage = "is_valid" -> ~ctx[c].region.valid_ok

\* C12: the stages need_rewrite has run are an initial part of the fixed
\* order loop parsing, cell match, weights, state variables, sequence
\* length, scan-input arity, attributes, is_valid; no stage before the last
\* one run reported a soft mismatch; need_rewrite returns False exactly when
\* the last stage run reported one, and True only after all eight stages.
C12_FixedOrderShortCircuit ==
    \A c \in Contexts :
        Called(c) =>
            /\ Len(ctx[c].ran) \in 1..Len(StageOrder)
            /\ ctx[c].ran = SubSeq(StageOrder, 1, Len(ctx[c].ran))
            /\ \A k \in 1..(Len(ctx[c].ran) - 1) : ~Mismatch(c, ctx[c].ran[k])
            /\ ctx[c].result = "False" <=> Mismatch(c, ctx[c].ran[Len(ctx[c].ran)])
            /\ ctx[c].result = "True" => Len(ctx[c].ran) = Len(StageOrder)

\* C12 witness: one call stopped at the state variables, one at the
\* scan-input arity check, both returning False.
C12_Witness ==
    \E c, d \in Contexts :
        /\ ctx[c].result = "False" /\ Len(ctx[c].ran) = 4
        /\ ctx[c].region.n_match = 1 /\ ctx[c].region.weights_ok
        /\ ctx[d].result = "False" /\ Len(ctx[d].ran) = 6
        /\ ctx[d].region.n_scan = 0

StepNames(c) == [k \in DOMAIN ctx[c].steps |-> ctx[c].steps[k].name]

\* C13: rewrite runs process_weights_and_bias, process_seq_length,
\* process_var_init_nodes, create_rnn_node, process_outputs in this order;
\* create_rnn_node finds "sequence_lens" bound and builds the fused node on
\* it; every connector and the main output rewiring find context.rnn_node
\* set; the connectors all run before the main output rewiring; rewrite
\* returns OK.
C13_RewriteStepOrder ==
    \A c \in Contexts :
        IF ctx[c].rewritten
        THEN /\ StepNames(c) =
                    <<"process_weights_and_bias", "process_seq_length",
                      "process_var_init_nodes", "create_rnn_node", "process_outputs">>
                    \o [k \in DOMAIN ctx[c].connectors |-> "output_connector"]
                    \o <<"connect_unit_rnn_output_to_graph">>
             /\ \A k \in DOMAIN ctx[c].steps :
                   /\ ctx[c].steps[k].name = "create_rnn_node" =>
                          /\ ctx[c].steps[k].sequence_lens # NoneId
                          /\ ctx[c].steps[k].sequence_lens =
                                 g.nodes[ctx[c].rnn_node].input[5]
                          /\ ctx[c].steps[k].rnn_node = 0
                   /\ ctx[c].steps[k].name \in
                          {"output_connector", "connect_unit_rnn_output_to_graph"} =>
                          /\ ctx[c].steps[k].rnn_node # 0
                          /\ ctx[c].steps[k].rnn_node = ctx[c].rnn_node
             /\ ctx[c].rewrite_result = REWRITER_RESULT_OK
        ELSE ctx[c].steps = <<>> /\ ctx[c].rewrite_result = "none"

\* C13 witness: a region was rewritten with two connectors and its main
\* sequence output rewired.
C13_Witness ==
    \E c \in Contexts :
        /\ ctx[c].rewritten
        /\ Len(ctx[c].connectors) = 2
        /\ ctx[c].scan_outputs_exits # <<>>
        /\ NodesOfType(c, "Squeeze") # {}

\* C14: when need_rewrite has returned True (and rewrite has not run yet),
\* cell_match is the single match, weights and state_variables are not
\* empty, there is exactly one scan-input initial value and the role "X" is
\* bound to it, no other role is bound, and rnn_node is None.
C14_FeasibilityInvariants ==
    \A c \in Contexts :
        (ctx[c].result = "True" /\ ~ctx[c].rewritten) =>
            /\ ctx[c].region.n_match = 1
            /\ ctx[c].cell_match = match_results(ctx[c].region.n_match)[1]
            /\ ctx[c].weights # {}
            /\ ctx[c].state_variables # <<>>
            /\ Len(ctx[c].scan_inputs_initial_values) = 1
            /\ ctx[c].onnx_input_ids["X"] = ctx[c].scan_inputs_initial_values[1]
            /\ ctx[c].onnx_input_ids["X"] # NoneId
            /\ \A r \in Roles \ {"X"} : ctx[c].onnx_input_ids[r] = NoneId
            /\ ctx[c].rnn_node = 0

\* C14 witness: need_rewrite returned True for a region with an explicit
\* sequence-length node, and rewrite has not run on it.
C14_Witness ==
    \E c \in Contexts :
        /\ ctx[c].result = "True"
        /\ ~ctx[c].rewritten
        /\ ctx[c].seq_len_node = SeqLenId(c)

\* C15 as stated: after get_state_variables returned True, the keys of
\* context.state_variables are the keys of the selected handler, and the
\* state variable find_sequence_length_node picks was found by a finder of
\* the selected handler.
C15_OnlySelectedHandlerVariables ==
    \A c \in Contexts :
        Ran(c, "find_sequence_length_node") =>
            /\ ctx[c].selected \in DOMAIN Handlers
            /\ DictKeys(ctx[c].state_variables) = Range(Handlers[ctx[c].selected])
            /\ ctx[c].picked[1] = ctx[c].selected

\* The consumers of next_iteration_input that are select ops whose first
\* output no TensorArrayWrite consumes.
FreeSelects ==
    {k \in DOMAIN fsv.consumers :
        /\ fsv.consumers[k].kind \in {"select_match", "select_nomatch"}
        /\ "TensorArrayWriteV3" \notin Range(fsv.consumers[k].out_consumers)}
TheFreeSelect == fsv.consumers[CHOOSE k \in FreeSelects : TRUE]

\* The target id and the listed consumers of the claim.
TargetId ==
    IF Cardinality(FreeSelects) = 1
    THEN Output0(TheFreeSelect.name) ELSE NextIterationInput
Listed ==
    IF Cardinality(FreeSelects) = 1
    THEN Append(fsv.listed, TheFreeSelect) ELSE fsv.listed

\* The loop variables whose next_iteration_input is the target id and whose
\* switch_true_identity_output is an input of every listed consumer.
Matching ==
    {k \in DOMAIN fsv.variables :
        /\ fsv.variables[k].next_iteration_input = TargetId
        /\ \A j \in DOMAIN Listed :
               fsv.variables[k].switch_true_identity_output \in Range(Listed[j].input)}

\* C16: _find_state_variable_with_select looks behind a select consumer of
\* next_iteration_input (target id = its output, the select added to the
\* listed consumers) exactly when one select consumer alone is not followed
\* by a TensorArrayWrite; it returns a state variable exactly when one loop
\* variable alone matches the target id and every listed consumer, and that
\* variable is the one returned; otherwise it returns None.
C16_FindStateVariableWithSelect ==
    fsv.pc = "done" =>
        /\ fsv.next_iteration_input = TargetId
        /\ fsv.switch_true_identity_consumers = Listed
        /\ fsv.ret # None <=> Cardinality(Matching) = 1
        /\ fsv.ret # None => fsv.ret = fsv.variables[CHOOSE k \in Matching : TRUE]

\* C16 witness: a call that looked behind the one free select among two
\* select consumers and returned one of two loop variables.
C16_Witness ==
    /\ fsv.pc = "done"
    /\ Len(fsv.consumers) = 2
    /\ \A k \in DOMAIN fsv.consumers : fsv.consumers[k].kind = "select_match"
    /\ Cardinality(FreeSelects) = 1
    /\ Len(fsv.variables) = 2
    /\ fsv.listed # <<>>
    /\ fsv.ret # None

====
